---- MODULE Spec2Model ----
(***************************************************************************)
(* Model of trlc-lrm-generator.py: the BNF lexer, the recursive-descent    *)
(* BNF parser with its symbol table, the semantic check, the renderers and *)
(* the driver main().                                                      *)
(*                                                                         *)
(* Text is a sequence of one-character strings.  Python's None is the      *)
(* string "None" where a character is expected (cc, nc) and the one-       *)
(* element sequence <<"None">> where a text is expected (values, names).   *)
(***************************************************************************)
EXTENDS Integers, Sequences, FiniteSets, TLC

VARIABLES
  \* a BNF_Lexer used on its own
  fragment,           \* BNF_Lexer.fragment: the text between the ''' marks
  original_location,  \* BNF_Lexer.original_location
  lexer,              \* the fields of the BNF_Lexer object
  returned,           \* what the calls of token() have returned, in order
  outcome,            \* how the last call of token() ended
  \* a run of main()
  pc,                 \* where main() is
  objects,            \* the record objects iterated so far, in order
  terminals,          \* BNF_Parser.terminals
  productions,        \* BNF_Parser.productions
  bundles,            \* BNF_Parser.bundles
  parser,             \* BNF_Parser.current_lexer, ct and nt
  status,             \* how the last call into the parser ended
  errors,             \* the messages given to mh.error, in order
  warnings,           \* the messages given to mh.warning, in order
  before,             \* the symbol table when the last object was taken up
  reparsed,           \* the productions parsed again from their str() form
  output,             \* docs/lrm.html
  exit_status         \* the exit statuses of the process, none while it runs

lexvars == <<fragment, original_location, lexer, returned, outcome>>
runvars == <<pc, objects, terminals, productions, bundles, parser, status,
             errors, warnings, before, reparsed, output, exit_status>>
vars == <<fragment, original_location, lexer, returned, outcome,
          pc, objects, terminals, productions, bundles, parser, status,
          errors, warnings, before, reparsed, output, exit_status>>

\* ------------------------------------------------------------------------
\* Characters
\* ------------------------------------------------------------------------
NoChar == "None"
None == <<"None">>

LowerChars == {"a", "b", "c", "f", "o", "r", "z", "x"}
UpperChars == {"A", "B", "R", "X"}
SpaceChars == {" ", "\n", "\t"}

isspace(c) == c \in SpaceChars
islower(c) == c \in LowerChars
isupper(c) == c \in UpperChars
isalpha(c) == islower(c) \/ isupper(c)

\* ------------------------------------------------------------------------
\* BNF_Lexer
\* ------------------------------------------------------------------------
\* The state of a fresh lexer object before the advance() of __init__.
LexerFields ==
  [lexpos |-> -2, line_no |-> 0, col_no |-> 0, cc |-> NoChar, nc |-> NoChar,
   eof_token_generated |-> FALSE]

advance(lx, frag) ==
  LET lexpos == lx.lexpos + 1
      newline == lx.cc = "\n" \/ lexpos = 0
      line_no == IF newline THEN lx.line_no + 1 ELSE lx.line_no
      col_a == IF newline THEN 0 ELSE lx.col_no
      col_no == IF lx.nc # NoChar THEN col_a + 1 ELSE col_a
  IN  [lx EXCEPT !.lexpos = lexpos,
                 !.line_no = line_no,
                 !.col_no = col_no,
                 !.cc = lx.nc,
                 !.nc = IF lexpos + 1 < Len(frag)
                        THEN frag[lexpos + 2]
                        ELSE NoChar]

BNF_Lexer(frag) == advance(LexerFields, frag)

\* Width of the ''' delimiter in front of the fragment.
DelimiterWidth == 3

mk_location(oloc, start_line, start_col, start_pos, end_pos) ==
  [start_line |-> oloc.line_no + (start_line - 1),
   start_col |-> IF start_line = 1
                 THEN oloc.col_no + DelimiterWidth
                 ELSE start_col,
   start_pos |-> oloc.start_pos + DelimiterWidth + start_pos,
   end_pos |-> oloc.start_pos + DelimiterWidth + end_pos]

\* What a raise of TRLC_Error through mh.error carries.
Message(kind, text, location) ==
  [kind |-> kind, message |-> text, location |-> location]

lex_error(lx, oloc, text) ==
  Message("lexical", text,
          mk_location(oloc, lx.line_no, lx.col_no,
                      lx.lexpos, lx.lexpos))

BNF_Token(kind, value, name, start, end, location) ==
  [kind |-> kind, value |-> value, name |-> name,
   start |-> start, end |-> end, location |-> location]

\* The whitespace loop at the head of token(): the lexer after the loop and
\* the number of newlines it has passed.  The character that advance() makes
\* current is the nc before it.
RECURSIVE SkipSpace(_, _, _)
SkipSpace(lx, frag, num_nl) ==
  IF lx.nc # NoChar /\ isspace(lx.nc)
  THEN SkipSpace(advance(lx, frag), frag,
                 IF lx.nc = "\n" THEN num_nl + 1 ELSE num_nl)
  ELSE [lx |-> lx, num_nl |-> num_nl]

\* while self.nc and (self.nc.isalpha() or self.nc == "_"): self.advance()
RECURSIVE SkipName(_, _)
SkipName(lx, frag) ==
  IF lx.nc # NoChar /\ (isalpha(lx.nc) \/ lx.nc = "_")
  THEN SkipName(advance(lx, frag), frag)
  ELSE lx

\* while self.nc and self.nc != "'": self.advance()
RECURSIVE SkipQuoted(_, _)
SkipQuoted(lx, frag) ==
  IF lx.nc # NoChar /\ lx.nc # "'"
  THEN SkipQuoted(advance(lx, frag), frag)
  ELSE lx

\* frag[start_pos:end_pos + 1], positions counted from 0.
Slice(frag, start_pos, end_pos) ==
  IF end_pos < start_pos THEN <<>>
  ELSE SubSeq(frag, start_pos + 1, end_pos + 1)

\* The loops that split TERMINAL and NONTERMINAL text at the first change of
\* letter case: acc is [head, tail, in_head, ok]; ok turns FALSE when the
\* assertion  head.endswith("_")  fails.  terminal selects the TERMINAL loop
\* (split at a lower-case letter).
RECURSIVE SplitName(_, _, _, _)
SplitName(raw_text, i, terminal, acc) ==
  IF i > Len(raw_text) \/ ~acc.ok THEN acc
  ELSE IF acc.in_head
          /\ (IF terminal THEN islower(raw_text[i]) ELSE isupper(raw_text[i]))
  THEN IF acc.head # <<>> /\ acc.head[Len(acc.head)] = "_"
       THEN SplitName(raw_text, i + 1, terminal,
                      [head |-> SubSeq(acc.head, 1, Len(acc.head) - 1),
                       tail |-> <<raw_text[i]>>, in_head |-> FALSE,
                       ok |-> TRUE])
       ELSE [acc EXCEPT !.ok = FALSE]
  ELSE IF acc.in_head
  THEN SplitName(raw_text, i + 1, terminal,
                 [acc EXCEPT !.head = Append(acc.head, raw_text[i])])
  ELSE SplitName(raw_text, i + 1, terminal,
                 [acc EXCEPT !.tail = Append(acc.tail, raw_text[i])])

SplitStart == [head |-> <<>>, tail |-> None, in_head |-> TRUE, ok |-> TRUE]

\* Results of one call of token(): a token, the end marker None, a lexical
\* error raised through mh.error, or a failed assert.
TokenResult(lx, how, tok, err) ==
  [lx |-> lx, outcome |-> how, tok |-> tok, err |-> err]

NoToken == BNF_Token("None", None, None, 0, 0, mk_location(
             [line_no |-> 0, col_no |-> 0, start_pos |-> 0], 0, 0, 0, 0))
NoMessage == Message("None", <<>>, NoToken.location)

\* self.lex_error(text) with the lexer at lx.
LexError(lx, oloc, text) ==
  TokenResult(lx, "lex_error", NoToken, lex_error(lx, oloc, text))

\* return BNF_Token(kind, value, start_pos, self.lexpos, self.mk_location(
\* start_line, start_col, start_pos, self.lexpos)): start is the lexer where
\* start_pos, start_line and start_col were taken.
MakeToken(lx, oloc, start, kind, value, name) ==
  TokenResult(lx, "token",
              BNF_Token(kind, value, name, start.lexpos, lx.lexpos,
                        mk_location(oloc, start.line_no, start.col_no,
                                    start.lexpos, lx.lexpos)),
              NoMessage)

\* The ::= branch after its first and after its second advance().
ScanOperatorEnd(lx, oloc, start) ==
  IF lx.cc # "=" THEN LexError(lx, oloc, <<"malformed ::= operator">>)
  ELSE MakeToken(lx, oloc, start, "PRODUCTION", None, None)

ScanOperator(lx, frag, oloc, start) ==
  IF lx.cc # ":" THEN LexError(lx, oloc, <<"malformed ::= operator">>)
  ELSE ScanOperatorEnd(advance(lx, frag), oloc, start)

\* The value of a TERMINAL or NONTERMINAL token from the split s of its text.
SplitToken(lx, oloc, start, kind, s) ==
  IF s.ok THEN MakeToken(lx, oloc, start, kind, s.head, s.tail)
  ELSE TokenResult(lx, "assert", NoToken, NoMessage)

ScanName(lx, frag, oloc, start, kind) ==
  SplitToken(lx, oloc, start, kind,
             SplitName(Slice(frag, start.lexpos, lx.lexpos), 1,
                       kind = "TERMINAL", SplitStart))

\* The quote branch after its while loop, and after its last advance().
SymbolToken(lx, frag, oloc, start) ==
  MakeToken(lx, oloc, start, "SYMBOL",
            Slice(frag, start.lexpos + 1, lx.lexpos - 1), None)

ScanSymbol(lx, frag, oloc, start) ==
  IF lx.nc = NoChar THEN LexError(lx, oloc, <<"unclosed token literal">>)
  ELSE SymbolToken(advance(lx, frag), frag, oloc, start)

\* The part of token() after the start of a token has been found.
ScanToken(lx, frag, oloc) ==
  CASE lx.cc = "[" -> MakeToken(lx, oloc, lx, "S_BRA", None, None)
    [] lx.cc = "]" -> MakeToken(lx, oloc, lx, "S_KET", None, None)
    [] lx.cc = "{" -> MakeToken(lx, oloc, lx, "C_BRA", None, None)
    [] lx.cc = "}" -> MakeToken(lx, oloc, lx, "C_KET", None, None)
    [] lx.cc = "|" -> MakeToken(lx, oloc, lx, "ALTERNATIVE", None, None)
    [] lx.cc = ":" -> ScanOperator(advance(lx, frag), frag, oloc, lx)
    [] islower(lx.cc) ->
         ScanName(SkipName(lx, frag), frag, oloc, lx, "NONTERMINAL")
    [] isupper(lx.cc) ->
         ScanName(SkipName(lx, frag), frag, oloc, lx, "TERMINAL")
    [] lx.cc = "'" -> ScanSymbol(SkipQuoted(lx, frag), frag, oloc, lx)
    [] OTHER -> LexError(lx, oloc, <<"unexpected character", lx.cc>>)

\* TokenAt with a RULE_END for one newline already.
TokenAtOneNewline(lx, num_nl, frag, oloc, begin) ==
  IF lx.cc = NoChar
  THEN IF ~lx.eof_token_generated
       THEN TokenResult([lx EXCEPT !.eof_token_generated = TRUE], "token",
                        BNF_Token("RULE_END", None, None, lx.lexpos, lx.lexpos,
                                  mk_location(oloc, begin.line_no,
                                              begin.col_no,
                                              lx.lexpos, lx.lexpos)),
                        NoMessage)
       ELSE TokenResult(lx, "none", NoToken, NoMessage)
  ELSE IF num_nl >= 1
  THEN TokenResult(lx, "token",
                   BNF_Token("RULE_END", None, None, begin.lexpos, lx.lexpos,
                             mk_location(oloc, lx.line_no, begin.col_no,
                                         begin.lexpos, lx.lexpos)),
                   NoMessage)
  ELSE ScanToken(lx, frag, oloc)

\* token() after the whitespace loop and the advance() under
\* if num_nl < 2: begin is the lexer when token() was called.
TokenAt(lx, num_nl, frag, oloc, begin) ==
  IF lx.cc = NoChar
  THEN IF ~lx.eof_token_generated
       THEN TokenResult([lx EXCEPT !.eof_token_generated = TRUE], "token",
                        BNF_Token("RULE_END", None, None, lx.lexpos, lx.lexpos,
                                  mk_location(oloc, begin.line_no,
                                              begin.col_no,
                                              lx.lexpos, lx.lexpos)),
                        NoMessage)
       ELSE TokenResult(lx, "none", NoToken, NoMessage)
  ELSE IF num_nl >= 2
  THEN TokenResult(lx, "token",
                   BNF_Token("RULE_END", None, None, begin.lexpos, lx.lexpos,
                             mk_location(oloc, lx.line_no, begin.col_no,
                                         begin.lexpos, lx.lexpos)),
                   NoMessage)
  ELSE ScanToken(lx, frag, oloc)

TokenAfterSpace(ws, frag, oloc, begin) ==
  TokenAt(IF ws.num_nl < 2 THEN advance(ws.lx, frag) ELSE ws.lx,
          ws.num_nl, frag, oloc, begin)

token(lx, frag, oloc) ==
  TokenAfterSpace(SkipSpace(lx, frag, 0), frag, oloc, lx)

\* ------------------------------------------------------------------------
\* AST nodes
\* ------------------------------------------------------------------------
BNF_Literal(location, kind, value, name) ==
  [node |-> "BNF_Literal", location |-> location,
   kind |-> kind, value |-> value, name |-> name]

BNF_Optional(location, expansion) ==
  [node |-> "BNF_Optional", location |-> location, expansion |-> expansion]

BNF_One_Or_More(location, expansion) ==
  [node |-> "BNF_One_Or_More", location |-> location, expansion |-> expansion]

BNF_String(members) ==
  [node |-> "BNF_String", location |-> members[1].location, members |-> members]

BNF_Alternatives(members) ==
  [node |-> "BNF_Alternatives", location |-> members[1].location,
   members |-> members]

NoNode == [node |-> "None"]

\* ------------------------------------------------------------------------
\* BNF_Parser: the lexer state (ct, nt and the nested lexer)
\* ------------------------------------------------------------------------
\* A parser state p is [lx, frag, oloc, ct, nt, current_lexer].  Every
\* parsing method gives [st, p, rv, err]: st is "ok" when it returns (rv is
\* the returned value), "error" when TRLC_Error is raised through mh.error
\* (err is the message), "assert" when an assert fails and "crash" when an
\* attribute of None is read.
Ok(p, rv) == [st |-> "ok", p |-> p, rv |-> rv, err |-> NoMessage]
Raise(p, err) == [st |-> "error", p |-> p, rv |-> NoNode, err |-> err]
Fail(p, how) == [st |-> how, p |-> p, rv |-> NoNode, err |-> NoMessage]

\* self.ct = self.nt; self.nt = r, r being what self.current_lexer.token()
\* gave.
Advanced(p, r) ==
  CASE r.outcome = "token" ->
         Ok([p EXCEPT !.lx = r.lx, !.ct = p.nt, !.nt = r.tok], NoNode)
    [] r.outcome = "none" ->
         Ok([p EXCEPT !.lx = r.lx, !.ct = p.nt, !.nt = NoToken], NoNode)
    [] r.outcome = "lex_error" -> Raise([p EXCEPT !.lx = r.lx], r.err)
    [] OTHER -> Fail([p EXCEPT !.lx = r.lx], "assert")

P_advance(p) == Advanced(p, token(p.lx, p.frag, p.oloc))

error(p, tok, kind, text) ==
  IF tok = NoToken THEN Fail(p, "assert")
  ELSE Raise(p, Message(kind, text, tok.location))

peek(p, kind) == p.nt # NoToken /\ p.nt.kind = kind

match(p, kind) ==
  IF p.nt = NoToken
  THEN error(p, p.ct, "syntax", <<"expected", kind, "encountered EOS instead">>)
  ELSE IF p.nt.kind # kind
  THEN error(p, p.nt, "syntax",
             <<"expected", kind, "encountered", p.nt.kind, "instead">>)
  ELSE P_advance(p)

\* ------------------------------------------------------------------------
\* BNF_Parser: expansions
\* ------------------------------------------------------------------------
FragmentStart == {"C_BRA", "S_BRA", "TERMINAL", "NONTERMINAL", "SYMBOL"}

RECURSIVE parse_expansion(_), parse_expansion_rest(_, _),
          parse_string(_), parse_string_rest(_, _), parse_fragment(_)

\* The C_BRA and S_BRA branches of parse_fragment after the match of the
\* closing bracket (m2), after parse_expansion (e) and after the match of
\* the opening bracket (m1); loc is the location of the opening bracket.
BracketedEnd(e, m2, close, loc) ==
  IF m2.st # "ok" THEN m2
  ELSE IF close = "C_KET" THEN Ok(m2.p, BNF_One_Or_More(loc, e.rv))
  ELSE Ok(m2.p, BNF_Optional(loc, e.rv))

BracketedInner(e, close, loc) ==
  IF e.st = "ok" THEN BracketedEnd(e, match(e.p, close), close, loc) ELSE e

Bracketed(m1, close, loc) ==
  IF m1.st = "ok" THEN BracketedInner(parse_expansion(m1.p), close, loc)
  ELSE m1

\* The TERMINAL, NONTERMINAL and SYMBOL branches after their match (m).
Literal(m, loc) ==
  IF m.st = "ok"
  THEN Ok(m.p, BNF_Literal(loc, m.p.ct.kind, m.p.ct.value, m.p.ct.name))
  ELSE m

parse_fragment(p) ==
  IF p.nt = NoToken THEN Fail(p, "crash")
  ELSE CASE peek(p, "C_BRA") ->
              Bracketed(match(p, "C_BRA"), "C_KET", p.nt.location)
         [] peek(p, "S_BRA") ->
              Bracketed(match(p, "S_BRA"), "S_KET", p.nt.location)
         [] peek(p, "TERMINAL") ->
              Literal(match(p, "TERMINAL"), p.nt.location)
         [] peek(p, "NONTERMINAL") ->
              Literal(match(p, "NONTERMINAL"), p.nt.location)
         [] peek(p, "SYMBOL") -> Literal(match(p, "SYMBOL"), p.nt.location)
         [] OTHER -> error(p, p.nt, "syntax", <<"expected bnf fragment">>)

\* rv.append(f) for the fragment f that parse_fragment gave, then the while
\* loop of parse_string.
StringWith(f, rv) == parse_string_rest(f, Append(rv, f.rv))

\* The while loop of parse_string: last is the result of the parse_fragment
\* before it, rv the list built so far.
parse_string_rest(last, rv) ==
  IF last.st # "ok" THEN last
  ELSE IF last.p.nt = NoToken THEN Fail(last.p, "crash")
  ELSE IF last.p.nt.kind \in FragmentStart
  THEN StringWith(parse_fragment(last.p), rv)
  ELSE IF Len(rv) = 1 THEN Ok(last.p, rv[1])
  ELSE Ok(last.p, BNF_String(rv))

parse_string(p) == StringWith(parse_fragment(p), <<>>)

\* rv.append(s) for the string s that parse_string gave, then the while
\* loop of parse_expansion.
ExpansionWith(s, rv) == parse_expansion_rest(s, Append(rv, s.rv))

\* The body of the while loop of parse_expansion after match(ALTERNATIVE).
ExpansionAfterBar(m, rv) ==
  ExpansionWith(IF m.st = "ok" THEN parse_string(m.p) ELSE m, rv)

\* parse_expansion_rest with an Alternatives node made of one sequence too.
parse_expansion_rest_wrapping(last, rv) ==
  IF last.st # "ok" THEN last
  ELSE IF peek(last.p, "ALTERNATIVE")
  THEN ExpansionAfterBar(match(last.p, "ALTERNATIVE"), rv)
  ELSE Ok(last.p, BNF_Alternatives(rv))

\* The while loop of parse_expansion.
parse_expansion_rest(last, rv) ==
  IF last.st # "ok" THEN last
  ELSE IF peek(last.p, "ALTERNATIVE")
  THEN ExpansionAfterBar(match(last.p, "ALTERNATIVE"), rv)
  ELSE IF Len(rv) = 1 THEN Ok(last.p, rv[1])
  ELSE Ok(last.p, BNF_Alternatives(rv))

parse_expansion(p) == ExpansionWith(parse_string(p), <<>>)

\* ------------------------------------------------------------------------
\* BNF_Parser: the symbol table and parse()
\* ------------------------------------------------------------------------
\* productions is the dict of the parser in insertion order: a sequence of
\* [name, n_exp].  bundles is a function from object names to name lists.
Keys(prods) == {prods[i].name : i \in DOMAIN prods}

Lookup(prods, name) ==
  prods[CHOOSE j \in DOMAIN prods : prods[j].name = name].n_exp

\* productions[name] = n_exp
Store(prods, name, n_exp) ==
  IF name \in Keys(prods)
  THEN [i \in DOMAIN prods |->
          IF prods[i].name = name
          THEN [name |-> name, n_exp |-> n_exp]
          ELSE prods[i]]
  ELSE Append(prods, [name |-> name, n_exp |-> n_exp])

\* bundles[name] = names
SetBundle(bnds, name, names) ==
  [n \in DOMAIN bnds \cup {name} |-> IF n = name THEN names ELSE bnds[n]]

\* parse_production gives [st, p, rv, err, productions]: rv is prod_name.
WithTable(r, prods) ==
  [st |-> r.st, p |-> r.p, rv |-> r.rv, err |-> r.err,
   productions |-> prods]

\* parse_production after parse_expansion (e), after match(PRODUCTION) (m2),
\* after the check for a duplicate (dup) and after match(NONTERMINAL) (m1).
\* ProductionStored with the production stored before its expansion is
\* parsed.
ProductionStoredAtOnce(e, prod_name, prods) ==
  IF e.st = "ok"
  THEN WithTable([e EXCEPT !.rv = prod_name], Store(prods, prod_name, e.rv))
  ELSE WithTable(e, Store(prods, prod_name, NoNode))

ProductionStored(e, prod_name, prods) ==
  IF e.st = "ok"
  THEN WithTable([e EXCEPT !.rv = prod_name], Store(prods, prod_name, e.rv))
  ELSE WithTable(e, prods)

ProductionDefined(m2, prod_name, prods) ==
  ProductionStored(IF m2.st = "ok" THEN parse_expansion(m2.p) ELSE m2,
                   prod_name, prods)

ProductionChecked(dup, prod_name, prods) ==
  ProductionDefined(IF dup.st = "ok" THEN match(dup.p, "PRODUCTION") ELSE dup,
                    prod_name, prods)

\* ProductionNamed without the check for a duplicate.
ProductionNamedUnchecked(m1, prods) ==
  ProductionChecked(m1, m1.p.ct.value, prods)

ProductionNamed(m1, prods) ==
  ProductionChecked(IF m1.st # "ok" THEN m1
                    ELSE IF m1.p.ct.value \in Keys(prods)
                    THEN error(m1.p, m1.p.ct, "duplicate",
                               <<"duplicated definition">>)
                    ELSE m1,
                    m1.p.ct.value, prods)

parse_production(p, prods) == ProductionNamed(match(p, "NONTERMINAL"), prods)

\* The while loop of parse(): names is bundles[obj.name] so far; r is what
\* parse_production gave and m what match(RULE_END) gave after it.
RECURSIVE parse_loop(_, _, _)

LoopEnded(r, m, names) ==
  IF m.st = "ok"
  THEN parse_loop(m.p, r.productions, names)
  ELSE [st |-> m.st, p |-> m.p, err |-> m.err,
        productions |-> r.productions, names |-> names]

\* LoopProduced with the name put in front of the list.
LoopProducedInFront(r, names) ==
  LoopEnded(r,
            IF r.st = "ok" THEN match(r.p, "RULE_END") ELSE r,
            IF r.st = "ok" THEN <<r.rv>> \o names ELSE names)

LoopProduced(r, names) ==
  LoopEnded(r,
            IF r.st = "ok" THEN match(r.p, "RULE_END") ELSE r,
            IF r.st = "ok" THEN Append(names, r.rv) ELSE names)

parse_loop(p, prods, names) ==
  IF p.nt = NoToken
  THEN [st |-> "ok", p |-> p, err |-> NoMessage,
        productions |-> prods, names |-> names]
  ELSE LoopProduced(parse_production(p, prods), names)

\* The parser's lexer state when no fragment is being parsed.
NoLexer == [lx |-> LexerFields, frag |-> None,
            oloc |-> [line_no |-> 0, col_no |-> 0, start_pos |-> 0],
            ct |-> NoToken, nt |-> NoToken, current_lexer |-> FALSE]

Quotes == <<"'", "'", "'">>

\* The Source_Reference of a whole string literal of the hosting document.
WholeLocation(location, text) ==
  [start_line |-> location.line_no, start_col |-> location.col_no,
   start_pos |-> location.start_pos,
   end_pos |-> location.start_pos + Len(text) - 1]

\* parse(obj): obj is [name, text, location], text being
\* obj.field["bnf"].location.text() and location obj.field["bnf"].location.
\* Gives [st, err, p, productions, bundles] as they are when parse returns
\* or raises.  ParseLooped is parse() after its while loop (run),
\* ParseStarted after the advance() that follows the making of the lexer
\* (first is what token() gave, p0 the parser then).
ParseLooped(run, obj, bnds) ==
  [st |-> run.st, err |-> run.err,
   p |-> IF run.st = "ok" THEN NoLexer ELSE run.p,
   productions |-> run.productions,
   bundles |-> SetBundle(bnds, obj.name, run.names)]

ParseStarted(first, p0, obj, prods, bnds) ==
  IF first.outcome = "lex_error"
  THEN [st |-> "error", err |-> first.err, p |-> p0,
        productions |-> prods, bundles |-> bnds]
  ELSE IF first.outcome = "assert"
  THEN [st |-> "assert", err |-> NoMessage, p |-> p0,
        productions |-> prods, bundles |-> bnds]
  ELSE ParseLooped(parse_loop(p0, prods, <<>>), obj, bnds)

ParseLexed(first, frag, obj, prods, bnds) ==
  ParseStarted(first,
               [lx |-> first.lx, frag |-> frag, oloc |-> obj.location,
                ct |-> NoToken,
                nt |-> IF first.outcome = "token" THEN first.tok ELSE NoToken,
                current_lexer |-> TRUE],
               obj, prods, bnds)

\* fragment = orig_text[3:-3]
Unquoted(orig_text) == SubSeq(orig_text, 4, Len(orig_text) - 3)

ParseText(frag, obj, prods, bnds) ==
  ParseLexed(token(BNF_Lexer(frag), frag, obj.location), frag, obj, prods, bnds)

parse(obj, prods, bnds) ==
  IF ~(Len(obj.text) >= 3 /\ SubSeq(obj.text, 1, 3) = Quotes)
  THEN [st |-> "error",
        err |-> Message("syntax", <<"BNF text must use ''' strings">>,
                        WholeLocation(obj.location, obj.text)),
        p |-> NoLexer, productions |-> prods, bundles |-> bnds]
  ELSE ParseText(Unquoted(obj.text), obj, prods, bnds)

\* ------------------------------------------------------------------------
\* BNF_Parser: the semantic check
\* ------------------------------------------------------------------------
\* The warnings of sem_literal, in the order mh.warning receives them.
sem_literal(n_literal, tset, prods) ==
  CASE n_literal.kind = "SYMBOL" ->
         IF n_literal.value \notin tset
         THEN <<Message("warning", <<"unknown terminal">>, n_literal.location)>>
         ELSE <<>>
    [] n_literal.kind = "TERMINAL" -> <<>>
    [] OTHER ->
         IF n_literal.value \notin Keys(prods)
         THEN <<Message("warning", <<"unknown production">>, n_literal.location)>>
         ELSE <<>>

RECURSIVE sem_expansion(_, _, _), sem_members(_, _, _, _)

\* sem_expansion that does not go into BNF_Optional.
sem_expansion_required(n_exp, tset, prods) ==
  CASE n_exp.node = "BNF_One_Or_More" ->
         sem_expansion(n_exp.expansion, tset, prods)
    [] n_exp.node = "BNF_Optional" -> <<>>
    [] n_exp.node \in {"BNF_String", "BNF_Alternatives"} ->
         sem_members(n_exp.members, 1, tset, prods)
    [] OTHER -> sem_literal(n_exp, tset, prods)

sem_expansion(n_exp, tset, prods) ==
  CASE n_exp.node \in {"BNF_One_Or_More", "BNF_Optional"} ->
         sem_expansion(n_exp.expansion, tset, prods)
    [] n_exp.node \in {"BNF_String", "BNF_Alternatives"} ->
         sem_members(n_exp.members, 1, tset, prods)
    [] OTHER -> sem_literal(n_exp, tset, prods)

\* for n_member in n_exp.members: self.sem_expansion(n_member)
sem_members(members, i, tset, prods) ==
  IF i > Len(members) THEN <<>>
  ELSE sem_expansion(members[i], tset, prods)
       \o sem_members(members, i + 1, tset, prods)

sem_production(production, tset, prods) ==
  sem_expansion(Lookup(prods, production), tset, prods)

\* for production in self.productions: self.sem_production(production)
RECURSIVE sem_from(_, _, _)
sem_from(i, tset, prods) ==
  IF i > Len(prods) THEN <<>>
  ELSE sem_production(prods[i].name, tset, prods)
       \o sem_from(i + 1, tset, prods)

sem(tset, prods) == sem_from(1, tset, prods)

\* ------------------------------------------------------------------------
\* BNF_Parser: terminals
\* ------------------------------------------------------------------------
\* Both give [st, err, terminals]; obj is [value, location].
register_terminal(obj, tset) ==
  IF obj.value \in tset
  THEN [st |-> "error",
        err |-> Message("duplicate terminal",
                        <<"duplicate definition of terminal">>,
                        WholeLocation(obj.location, obj.value)),
        terminals |-> tset]
  ELSE [st |-> "ok", err |-> NoMessage,
        terminals |-> tset \cup {obj.value}]

\* The back-quote character, which a TLA+ string cannot hold.
BackQuote == "BQ"

\* re.finditer over value with the pattern  back-quote, any run of other
\* characters (group 1), back-quote:  group 1 of the matches from position i
\* on, left to right.
RECURSIVE Find(_, _, _)
Find(value, c, i) ==
  IF i > Len(value) THEN 0
  ELSE IF value[i] = c THEN i
  ELSE Find(value, c, i + 1)

RECURSIVE finditer(_, _)

\* A match from the back-quote at open to the next one at close, and the
\* matches after it; 0 stands for no back-quote found.
MatchClosed(value, open, close) ==
  IF close = 0 THEN <<>>
  ELSE <<SubSeq(value, open + 1, close - 1)>> \o finditer(value, close + 1)

MatchOpened(value, open) ==
  MatchClosed(value, open,
              IF open = 0 THEN 0 ELSE Find(value, BackQuote, open + 1))

finditer(value, i) == MatchOpened(value, Find(value, BackQuote, i))

RECURSIVE register_matches(_, _, _, _)

\* register_matches without the check for a duplicate.
register_matches_unchecked(obj, matches, i, tset) ==
  IF i > Len(matches)
  THEN [st |-> "ok", err |-> NoMessage, terminals |-> tset]
  ELSE IF matches[i] # <<>>
  THEN register_matches(obj, matches, i + 1, tset \cup {matches[i]})
  ELSE [st |-> "error",
        err |-> Message("empty terminal",
                        <<"empty terminal is not permitted">>,
                        WholeLocation(obj.location, obj.value)),
        terminals |-> tset]

register_matches(obj, matches, i, tset) ==
  IF i > Len(matches)
  THEN [st |-> "ok", err |-> NoMessage, terminals |-> tset]
  ELSE IF matches[i] # <<>>
  THEN IF matches[i] \in tset
       THEN [st |-> "error",
             err |-> Message("duplicate terminal",
                             <<"duplicate definition of terminal">>
                               \o matches[i],
                             WholeLocation(obj.location, obj.value)),
             terminals |-> tset]
       ELSE register_matches(obj, matches, i + 1, tset \cup {matches[i]})
  ELSE [st |-> "error",
        err |-> Message("empty terminal",
                        <<"empty terminal is not permitted">>,
                        WholeLocation(obj.location, obj.value)),
        terminals |-> tset]

register_backtick_terminals(obj, tset) ==
  register_matches(obj, finditer(obj.value, 1), 1, tset)

\* ------------------------------------------------------------------------
\* __str__ of the AST nodes
\* ------------------------------------------------------------------------
RECURSIVE Str(_), JoinStr(_, _, _)

Str(n) ==
  CASE n.node = "BNF_Literal" -> n.value
    [] n.node = "BNF_Optional" -> <<"[", " ">> \o Str(n.expansion) \o <<" ", "]">>
    [] n.node = "BNF_One_Or_More" ->
         <<"{", " ">> \o Str(n.expansion) \o <<" ", "}">>
    [] n.node = "BNF_String" -> JoinStr(n.members, 1, <<" ">>)
    [] OTHER -> JoinStr(n.members, 1, <<" ", "|", " ">>)

\* sep.join(map(str, members[i:]))
JoinStr(members, i, sep) ==
  IF i = Len(members) THEN Str(members[i])
  ELSE Str(members[i]) \o sep \o JoinStr(members, i + 1, sep)


\* ------------------------------------------------------------------------
\* main(): the loop over the record objects
\* ------------------------------------------------------------------------
\* A record object of the LRM package is [type, name, text, location,
\* bullets]: text and location are those of the bnf field of a Grammar
\* object, bullets the String_Literals [value, location] of the bullets
\* field of a Keywords or Punctuation object.  Objects are named by their
\* position in the package.
ObjLocation(i) == [line_no |-> 10 * i, col_no |-> 5, start_pos |-> 100 * i]

BulletLocation(i, k) ==
  [line_no |-> 10 * i + k, col_no |-> 9, start_pos |-> 100 * i + 20 * k]

Grammar_Object(i, text) ==
  [type |-> "Grammar", name |-> i, text |-> text, location |-> ObjLocation(i),
   bullets |-> <<>>]

Bullets_Object(type, i, values) ==
  [type |-> type, name |-> i, text |-> <<>>, location |-> ObjLocation(i),
   bullets |-> [k \in DOMAIN values |->
                  [value |-> values[k], location |-> BulletLocation(i, k)]]]

Text_Object(i) ==
  [type |-> "Text", name |-> i, text |-> <<>>, location |-> ObjLocation(i),
   bullets |-> <<>>]

\* for kwobj in obj.field["bullets"].value, each call inside try/except with
\* return: gives [st, err, terminals] when the loop ends or a call raises.
RECURSIVE register_bullets(_, _, _, _)

BulletRegistered(r, bullets, i, backtick) ==
  IF r.st = "ok"
  THEN register_bullets(bullets, i + 1, backtick, r.terminals)
  ELSE r

register_bullets(bullets, i, backtick, tset) ==
  IF i > Len(bullets)
  THEN [st |-> "ok", err |-> NoMessage, terminals |-> tset]
  ELSE BulletRegistered(IF backtick
                        THEN register_backtick_terminals(bullets[i], tset)
                        ELSE register_terminal(bullets[i], tset),
                        bullets, i, backtick)

\* The body of the loop for one object: [st, err, p, terminals, productions,
\* bundles] when the body ends or an exception leaves it.
GrammarParsed(r, table) ==
  [st |-> r.st, err |-> r.err, p |-> r.p, terminals |-> table.terminals,
   productions |-> r.productions, bundles |-> r.bundles]

BulletsRegistered(r, table) ==
  [st |-> r.st, err |-> r.err, p |-> NoLexer, terminals |-> r.terminals,
   productions |-> table.productions, bundles |-> table.bundles]

process_object(obj, table) ==
  CASE obj.type = "Grammar" ->
         GrammarParsed(parse(obj, table.productions, table.bundles), table)
    [] obj.type \in {"Keywords", "Punctuation"} ->
         BulletsRegistered(register_bullets(obj.bullets, 1,
                                            obj.type = "Punctuation",
                                            table.terminals),
                           table)
    [] OTHER ->
         [st |-> "ok", err |-> NoMessage, p |-> NoLexer,
          terminals |-> table.terminals,
          productions |-> table.productions, bundles |-> table.bundles]

\* The exit status of the process when main() is left by  return  (after
\* except TRLC_Error, or at its end), and when it is left by sys.exit(1) or
\* by an exception nobody catches.
ReturnStatus == 0
FailureStatus == 1

\* exit_status is the sequence of the exit statuses of the process: empty
\* while it is running.
NotExited == <<>>

main_left(st) == IF st \in {"ok", "error"} THEN ReturnStatus ELSE FailureStatus

Table == [terminals |-> terminals, productions |-> productions,
          bundles |-> bundles]

EmptyTable == [terminals |-> {}, productions |-> <<>>, bundles |-> <<>>]

\* write_text_object for every object: the anchors bnf-<name> that
\* write_production writes, in order.
RECURSIVE write_objects(_, _, _)
write_objects(objs, i, bnf_bundles) ==
  IF i > Len(objs) THEN <<>>
  ELSE (IF objs[i].type = "Grammar" THEN bnf_bundles[objs[i].name] ELSE <<>>)
       \o write_objects(objs, i + 1, bnf_bundles)

\* " " * n
Spaces(n) == [k \in 1..n |-> " "]

\* write_expansion(fd, n_exp) for a literal: the characters written to fd.
write_literal(n_exp) ==
  CASE n_exp.kind = "SYMBOL" -> <<"'">> \o n_exp.value \o <<"'">>
    [] n_exp.kind = "TERMINAL" ->
         n_exp.value
         \o (IF n_exp.name # None
             THEN <<"<", "i", ">", "_">> \o n_exp.name
                  \o <<"<", "/", "i", ">">>
             ELSE <<>>)
    [] OTHER ->
         <<"<", "a", " ", "h", "r", "e", "f", "=", "\"", "#", "b", "n", "f",
           "-">>
         \o n_exp.value \o <<"\"", ">">> \o n_exp.value
         \o <<"<", "/", "a", ">">>
         \o (IF n_exp.name # None
             THEN <<"<", "i", ">", "_">> \o n_exp.name
                  \o <<"<", "/", "i", ">">>
             ELSE <<>>)

RECURSIVE write_expansion(_), write_members(_, _, _)

\* for n_member in n_exp.members, with sep written before all but the first.
write_members(members, i, sep) ==
  IF i > Len(members) THEN <<>>
  ELSE (IF i = 1 THEN <<>> ELSE sep)
       \o write_expansion(members[i])
       \o write_members(members, i + 1, sep)

write_expansion(n_exp) ==
  CASE n_exp.node = "BNF_Alternatives" ->
         write_members(n_exp.members, 1, <<" ", "|", " ">>)
    [] n_exp.node = "BNF_String" -> write_members(n_exp.members, 1, <<" ">>)
    [] n_exp.node = "BNF_Optional" ->
         <<"[", " ">> \o write_expansion(n_exp.expansion) \o <<" ", "]">>
    [] n_exp.node = "BNF_One_Or_More" ->
         <<"{", " ">> \o write_expansion(n_exp.expansion) \o <<" ", "}">>
    [] OTHER -> write_literal(n_exp)

\* for n_member in n_exp.members[1:] of write_production.
RECURSIVE write_alternatives(_, _, _)
write_alternatives(members, i, alt_offset) ==
  IF i > Len(members) THEN <<>>
  ELSE Spaces(alt_offset) \o <<"|", " ">>
       \o write_expansion(members[i]) \o <<"\n">>
       \o write_alternatives(members, i + 1, alt_offset)

\* write_production(fd, production, bnf_parser) after the anchor and ::= are
\* written: n_exp is bnf_parser.productions[production].
write_rule(production, n_exp) ==
  IF n_exp.node = "BNF_Alternatives"
  THEN write_expansion(n_exp.members[1]) \o <<"\n">>
       \o write_alternatives(n_exp.members, 2, Len(production) + 3)
  ELSE write_expansion(n_exp) \o <<"\n">>

write_production(production, prods) ==
  <<"<", "a", " ", "n", "a", "m", "e", "=", "\"", "b", "n", "f", "-">>
  \o production \o <<"\"", ">", "<", "/", "a", ">">>
  \o production \o <<" ", ":", ":", "=", " ">>
  \o write_rule(production, Lookup(prods, production))

\* for production in bnf_parser.bundles[obj.name] of write_text_object: what
\* is written between <pre> and </pre>.
RECURSIVE write_bundle(_, _, _)
write_bundle(names, i, prods) ==
  IF i > Len(names) THEN <<>>
  ELSE (IF i = 1 THEN <<>> ELSE <<"\n">>)
       \o write_production(names[i], prods)
       \o write_bundle(names, i + 1, prods)

\* write_text_object for every object: what is written between <pre> and
\* </pre> for each Grammar object, in order.
RECURSIVE write_grammars(_, _, _, _)
write_grammars(objs, i, bnf_bundles, prods) ==
  IF i > Len(objs) THEN <<>>
  ELSE (IF objs[i].type = "Grammar"
        THEN <<write_bundle(bnf_bundles[objs[i].name], 1, prods)>>
        ELSE <<>>)
       \o write_grammars(objs, i + 1, bnf_bundles, prods)

\* Taken with the loop going on after an error.
TakenGoingOn(obj, r, next) ==
  /\ objects' = Append(objects, obj)
  /\ before' = Table
  /\ terminals' = r.terminals
  /\ productions' = r.productions
  /\ bundles' = r.bundles
  /\ parser' = r.p
  /\ status' = r.st
  /\ errors' = IF r.st = "error" THEN Append(errors, r.err) ELSE errors
  /\ pc' = next
  /\ exit_status' = NotExited
  /\ UNCHANGED <<warnings, reparsed, output>>

\* One pass of the loop body of main() over obj; next is where main() goes
\* on when the body ends normally.
Taken(obj, r, next) ==
  /\ objects' = Append(objects, obj)
  /\ before' = Table
  /\ terminals' = r.terminals
  /\ productions' = r.productions
  /\ bundles' = r.bundles
  /\ parser' = r.p
  /\ status' = r.st
  /\ errors' = IF r.st = "error" THEN Append(errors, r.err) ELSE errors
  /\ pc' = IF r.st = "ok" THEN next ELSE "exited"
  /\ exit_status' = IF r.st = "ok" THEN NotExited ELSE <<main_left(r.st)>>
  /\ UNCHANGED <<warnings, reparsed, output>>

Take(obj, next) == Taken(obj, process_object(obj, Table), next)

\* parser.sem() after the loop.
Sem(next) ==
  /\ warnings' = warnings \o sem(terminals, productions)
  /\ pc' = next
  /\ UNCHANGED <<objects, terminals, productions, bundles, parser, status,
                 errors, before, reparsed, output, exit_status>>

\* ------------------------------------------------------------------------
\* Texts
\* ------------------------------------------------------------------------
RECURSIVE JoinWords(_, _, _)
JoinWords(words, i, sep) ==
  IF i > Len(words) THEN <<>>
  ELSE IF i = Len(words) THEN words[i]
  ELSE words[i] \o sep \o JoinWords(words, i + 1, sep)

Spaced(words) == JoinWords(words, 1, <<" ">>)

Marked(frag) == Quotes \o frag \o Quotes

W_a == <<"a">>
W_b == <<"b">>
W_B == <<"B">>
W_x == <<"'", "x", "'">>
W_is == <<":", ":", "=">>
W_or == <<"|">>
W_sbra == <<"[">>
W_sket == <<"]">>
W_cbra == <<"{">>
W_cket == <<"}">>
W_end == <<"\n", "\n">>

\* ------------------------------------------------------------------------
\* The lexer alone: a fragment is fixed and token() is called repeatedly
\* ------------------------------------------------------------------------
MaxLen == 4

LexChars == {"a", "B", "_", "'", ":", "=", "|", "[", " ", "\n", "#"}

RECURSIVE TextsUpTo(_, _)
TextsUpTo(chars, n) ==
  IF n = 0 THEN {<<>>}
  ELSE LET shorter == TextsUpTo(chars, n - 1)
       IN  shorter \cup {Append(t, c) : t \in shorter, c \in chars}

Locations ==
  {[line_no |-> 1, col_no |-> 1, start_pos |-> 0],
   [line_no |-> 7, col_no |-> 5, start_pos |-> 40]}

NoOutput == [opened |-> FALSE, anchors |-> <<>>, pre |-> <<>>]

\* main() has not been entered.
RunIdle ==
  /\ pc = "idle"
  /\ objects = <<>>
  /\ terminals = {}
  /\ productions = <<>>
  /\ bundles = <<>>
  /\ parser = NoLexer
  /\ status = "ok"
  /\ errors = <<>>
  /\ warnings = <<>>
  /\ before = EmptyTable
  /\ reparsed = <<>>
  /\ output = NoOutput
  /\ exit_status = NotExited

LexInit ==
  /\ fragment \in TextsUpTo(LexChars, MaxLen)
  /\ original_location \in Locations
  /\ lexer = BNF_Lexer(fragment)
  /\ returned = <<>>
  /\ outcome = "init"
  /\ RunIdle

Returned(r) ==
  /\ lexer' = r.lx
  /\ outcome' = r.outcome
  /\ returned' = IF r.outcome \in {"token", "none"}
                 THEN Append(returned, r.tok)
                 ELSE returned

\* One call of token().  A raised error ends the use of the lexer; after the
\* end marker one more call is made to see what it returns.
Token ==
  /\ outcome \in {"init", "token", "none"}
  /\ Len(SelectSeq(returned, LAMBDA t : t = NoToken)) < 2
  /\ Returned(token(lexer, fragment, original_location))
  /\ UNCHANGED <<fragment, original_location>>
  /\ UNCHANGED runvars

LexNext == Token

SpecLex == LexInit /\ [][LexNext]_vars

\* ------------------------------------------------------------------------
\* One fragment: parse(), then sem(), then every production of the fragment
\* is written with str() and parsed again
\* ------------------------------------------------------------------------
MaxWords == 4

Words == {W_b, W_B, W_x, W_or, W_sbra, W_sket, W_cbra, W_cket,
          W_end \o Spaced(<<W_b, W_is>>)}

RECURSIVE WordListsUpTo(_)
WordListsUpTo(n) ==
  IF n = 0 THEN {<<>>}
  ELSE LET shorter == WordListsUpTo(n - 1)
       IN  shorter \cup {Append(t, w) : t \in shorter, w \in Words}

\* The fragments  a ::= w1 ... wn  with n <= MaxWords.
Fragments == {Spaced(<<W_a, W_is>> \o ws) : ws \in WordListsUpTo(MaxWords)}

\* The objects main() has gone through before the fragment is parsed.
Earlier ==
  {<<>>,
   <<Bullets_Object("Keywords", 1, <<<<"x">>>>),
     Grammar_Object(2, Marked(Spaced(<<W_b, W_is, W_B>>)))>>}

RECURSIVE TableAfter(_, _, _)

TableWith(r, objs, i) ==
  TableAfter(objs, i + 1,
             [terminals |-> r.terminals, productions |-> r.productions,
              bundles |-> r.bundles])

TableAfter(objs, i, table) ==
  IF i > Len(objs) THEN table
  ELSE TableWith(process_object(objs[i], table), objs, i)

ParseInit ==
  /\ fragment \in Fragments
  /\ objects \in Earlier
  /\ original_location = ObjLocation(Len(objects) + 1)
  /\ lexer = LexerFields
  /\ returned = <<>>
  /\ outcome = "init"
  /\ pc = "parse"
  /\ before = TableAfter(objects, 1, EmptyTable)
  /\ terminals = before.terminals
  /\ productions = before.productions
  /\ bundles = before.bundles
  /\ parser = NoLexer
  /\ status = "ok"
  /\ errors = <<>>
  /\ warnings = <<>>
  /\ reparsed = <<>>
  /\ output = NoOutput
  /\ exit_status = NotExited

ParseFragment ==
  /\ pc = "parse"
  /\ Take(Grammar_Object(Len(objects) + 1, Marked(fragment)), "sem")
  /\ UNCHANGED lexvars

CheckFragment ==
  /\ pc = "sem"
  /\ Sem("str")
  /\ UNCHANGED lexvars

\* name ::= str(n_exp), parsed by a new BNF_Parser.
ParseAgain(name, n_exp) ==
  parse(Grammar_Object(1, Marked(Spaced(<<name, W_is>>) \o <<" ">> \o Str(n_exp))),
        <<>>, <<>>)

Reparsed(name, r) ==
  [name |-> name, st |-> r.st, productions |-> r.productions]

RenderEach(names) ==
  [k \in DOMAIN names |->
     Reparsed(names[k], ParseAgain(names[k], Lookup(productions, names[k])))]

RenderFragment ==
  /\ pc = "str"
  /\ reparsed' = RenderEach(bundles[Len(objects)])
  /\ pc' = "done"
  /\ UNCHANGED <<objects, terminals, productions, bundles, parser, status,
                 errors, warnings, before, output, exit_status>>
  /\ UNCHANGED lexvars

ParseNext == ParseFragment \/ CheckFragment \/ RenderFragment

SpecParse == ParseInit /\ [][ParseNext]_vars

\* ------------------------------------------------------------------------
\* A run of main()
\* ------------------------------------------------------------------------
MaxObjects == 3

W_aX == <<"a", "_", "X">>
W_Bx == <<"B", "_", "x">>
W_fooBar == <<"f", "o", "o", "B", "a", "r">>
W_foo == <<"f", "o", "o">>
W_BAR == <<"B", "A", "R">>
W_baz == <<"b", "a", "z">>

\* The texts of the bnf fields, as written in the package.
GrammarTexts ==
  {Marked(Spaced(<<W_a, W_is, W_B>>)),
   Marked(Spaced(<<W_a, W_is, W_x, W_Bx, W_or, W_sbra, W_b, W_sket>>)),
   Marked(Spaced(<<W_b, W_is, W_cbra, W_aX, W_cket>>)),
   Marked(Spaced(<<W_a, W_is, W_B>>) \o W_end \o Spaced(<<W_b, W_is, W_a>>)),
   Marked(Spaced(<<W_b, W_is, W_B>>) \o W_end \o Spaced(<<W_b, W_is, W_x>>)),
   Marked(Spaced(<<W_b, W_is, W_sket>>) \o W_end \o Spaced(<<W_b, W_is, W_B>>)),
   Marked(Spaced(<<W_aX, W_is, W_sket>>)),
   Marked(Spaced(<<W_b, W_is, W_B>>) \o W_end),
   Marked(Spaced(<<W_b, W_is, <<"#">>>>)),
   Marked(Spaced(<<W_b, W_is, W_sbra, W_B>>)),
   Marked(Spaced(<<W_b, W_is, W_B, W_sket>>)),
   Marked(Spaced(<<W_fooBar, W_is, W_B>>)),
   Marked(<<>>),
   Marked(Spaced(<<W_baz, W_is, W_BAR>>)),
   Marked(Spaced(<<W_foo, W_is, <<"'", "a", "'">>, W_BAR, W_or,
                   W_sbra, W_baz, W_sket>>)),
   <<"\"">> \o Spaced(<<W_b, W_is, W_B>>) \o <<"\"">>}

\* The bullets of Keywords objects and of Punctuation objects.
KeywordBullets ==
  {<<<<"x">>>>, <<<<"y">>, <<"x">>>>, <<<<"y">>, <<"y">>>>, <<W_BAR>>}

PunctuationBullets ==
  {<<<<BackQuote, "x", BackQuote>>>>,
   <<<<"y">>, <<BackQuote, "y", BackQuote, " ", BackQuote, "x", BackQuote>>>>,
   <<<<BackQuote, "z", BackQuote, BackQuote, "z", BackQuote>>>>,
   <<<<BackQuote, "z", BackQuote, " ", BackQuote, BackQuote>>>>}

Init ==
  /\ fragment = <<>>
  /\ original_location = ObjLocation(0)
  /\ lexer = LexerFields
  /\ returned = <<>>
  /\ outcome = "init"
  /\ pc = "process"
  /\ objects = <<>>
  /\ terminals = {}
  /\ productions = <<>>
  /\ bundles = <<>>
  /\ parser = NoLexer
  /\ status = "ok"
  /\ errors = <<>>
  /\ warnings = <<>>
  /\ before = EmptyTable
  /\ reparsed = <<>>
  /\ output = NoOutput
  /\ exit_status = NotExited

\* symbols = sm.process(); if symbols is None: sys.exit(1)
Process ==
  /\ pc = "process"
  /\ \E symbols \in {"None", "symbols"} :
       /\ pc' = IF symbols = "None" THEN "exited" ELSE "objects"
       /\ exit_status' = IF symbols = "None" THEN <<FailureStatus>> ELSE NotExited
  /\ UNCHANGED <<objects, terminals, productions, bundles, parser, status,
                 errors, warnings, before, reparsed, output>>
  /\ UNCHANGED lexvars

Grammar ==
  /\ pc = "objects"
  /\ Len(objects) < MaxObjects
  /\ \E text \in GrammarTexts :
       Take(Grammar_Object(Len(objects) + 1, text), "objects")
  /\ UNCHANGED lexvars

Keywords ==
  /\ pc = "objects"
  /\ Len(objects) < MaxObjects
  /\ \E values \in KeywordBullets :
       Take(Bullets_Object("Keywords", Len(objects) + 1, values), "objects")
  /\ UNCHANGED lexvars

Punctuation ==
  /\ pc = "objects"
  /\ Len(objects) < MaxObjects
  /\ \E values \in PunctuationBullets :
       Take(Bullets_Object("Punctuation", Len(objects) + 1, values), "objects")
  /\ UNCHANGED lexvars

Text ==
  /\ pc = "objects"
  /\ Len(objects) < MaxObjects
  /\ Take(Text_Object(Len(objects) + 1), "objects")
  /\ UNCHANGED lexvars

\* The loop has gone through every object of the package.
Check ==
  /\ pc = "objects"
  /\ Sem("write")
  /\ UNCHANGED lexvars

\* with open("docs/lrm.html", "w") ... write_footer
Write ==
  /\ pc = "write"
  /\ output' = [opened |-> TRUE,
                anchors |-> write_objects(objects, 1, bundles),
                pre |-> write_grammars(objects, 1, bundles, productions)]
  /\ pc' = "exited"
  /\ exit_status' = <<main_left("ok")>>
  /\ UNCHANGED <<objects, terminals, productions, bundles, parser, status,
                 errors, warnings, before, reparsed>>
  /\ UNCHANGED lexvars

Next == Process \/ Grammar \/ Keywords \/ Punctuation \/ Text \/ Check \/ Write

Spec == Init /\ [][Next]_vars

\* ------------------------------------------------------------------------
\* Reading texts and syntax trees without the parser
\* ------------------------------------------------------------------------
\* The tokens that repeated calls of token() give on a fragment, up to the
\* end marker, a lexical error or a failed assert.
RECURSIVE Tokens(_, _, _, _)

TokensWith(r, frag, oloc, out) ==
  IF r.outcome = "token"
  THEN Tokens(r.lx, frag, oloc, Append(out, r.tok))
  ELSE out

Tokens(lx, frag, oloc, out) ==
  TokensWith(token(lx, frag, oloc), frag, oloc, out)

TokensOf(frag, oloc) == Tokens(BNF_Lexer(frag), frag, oloc, <<>>)

\* Token i opens a production: a NONTERMINAL at the start of the fragment or
\* right after a RULE_END.
IsDecl(toks, i) ==
  /\ toks[i].kind = "NONTERMINAL"
  /\ (i = 1 \/ toks[i - 1].kind = "RULE_END")

\* Token i opens a production whose name is in keys or was opened before in
\* the same fragment.
Redeclares(toks, i, keys) ==
  /\ IsDecl(toks, i)
  /\ \/ toks[i].value \in keys
     \/ \E j \in 1..(i - 1) : IsDecl(toks, j) /\ toks[j].value = toks[i].value

RECURSIVE NamesFrom(_, _)
NamesFrom(toks, i) ==
  IF i > Len(toks) THEN <<>>
  ELSE (IF IsDecl(toks, i) THEN <<toks[i].value>> ELSE <<>>)
       \o NamesFrom(toks, i + 1)

\* The first RULE_END after token i.
NextRuleEnd(toks, i) ==
  CHOOSE j \in (i + 1)..Len(toks) :
    /\ toks[j].kind = "RULE_END"
    /\ \A k \in (i + 1)..(j - 1) : toks[k].kind # "RULE_END"

Min(a, b) == IF a < b THEN a ELSE b

\* The text of the production that token i opens, up to its RULE_END.
ProductionText(frag, toks, i) ==
  Slice(frag, toks[i].start,
        Min(toks[NextRuleEnd(toks, i)].start, Len(frag) - 1))

\* A syntax tree without its locations.
RECURSIVE Strip(_)
Strip(n) ==
  CASE n.node = "BNF_Literal" ->
         [node |-> n.node, kind |-> n.kind, value |-> n.value, name |-> n.name]
    [] n.node \in {"BNF_Optional", "BNF_One_Or_More"} ->
         [node |-> n.node, expansion |-> Strip(n.expansion)]
    [] OTHER ->
         [node |-> n.node,
          members |-> [k \in DOMAIN n.members |-> Strip(n.members[k])]]

\* The literals of a syntax tree, left to right, and those of a table.
RECURSIVE Leaves(_), LeavesOf(_, _)

Leaves(n) ==
  CASE n.node = "BNF_Literal" -> <<n>>
    [] n.node \in {"BNF_Optional", "BNF_One_Or_More"} -> Leaves(n.expansion)
    [] OTHER -> LeavesOf(n.members, 1)

LeavesOf(members, i) ==
  IF i > Len(members) THEN <<>>
  ELSE Leaves(members[i]) \o LeavesOf(members, i + 1)

RECURSIVE TableLeaves(_, _)
TableLeaves(prods, i) ==
  IF i > Len(prods) THEN <<>>
  ELSE Leaves(prods[i].n_exp) \o TableLeaves(prods, i + 1)

Range(s) == {s[i] : i \in DOMAIN s}

Reverse(s) == [i \in DOMAIN s |-> s[Len(s) + 1 - i]]

Count(text, c) == Cardinality({i \in DOMAIN text : text[i] = c})

\* The object that main() has taken last, and the tokens of its fragment.
LastObject == objects[Len(objects)]

LastIsFragment ==
  /\ objects # <<>>
  /\ LastObject.type = "Grammar"
  /\ SubSeq(LastObject.text, 1, 3) = Quotes

LastTokens == TokensOf(Unquoted(LastObject.text), LastObject.location)

\* The tokens of the fragment that SpecParse parses.
FragmentTokens == TokensOf(fragment, original_location)

\* ------------------------------------------------------------------------
\* C1
\* ------------------------------------------------------------------------
\* The production text parsed on its own by a new parser gives one
\* production of that name and with that tree.
ParsedAlone(r, name, n_exp) ==
  /\ r.st = "ok"
  /\ Len(r.productions) = 1
  /\ r.productions[1].name = name
  /\ Strip(r.productions[1].n_exp) = Strip(n_exp)

HoldsOwnTree(frag, toks, i, prods) ==
  /\ toks[i].value \in Keys(prods)
  /\ ParsedAlone(parse(Grammar_Object(0, Marked(ProductionText(frag, toks, i))),
                       <<>>, <<>>),
                 toks[i].value, Lookup(prods, toks[i].value))

\* C1: after parse() has succeeded on a fragment, bundles[obj.name] is the
\* list of the names of the productions the fragment declares, in the order
\* of their declaration, and each of these names is a key of productions
\* whose value is the syntax tree of the right-hand side of its own
\* production.
C1_BundleListsDeclarations ==
  (pc # "parse" /\ status = "ok") =>
    /\ bundles[Len(objects)] = NamesFrom(FragmentTokens, 1)
    /\ \A i \in DOMAIN FragmentTokens :
         IsDecl(FragmentTokens, i) =>
           HoldsOwnTree(fragment, FragmentTokens, i, productions)

\* A fragment of two productions has been parsed.
C1_TwoProductionsParsed ==
  /\ pc = "done"
  /\ status = "ok"
  /\ Len(bundles[Len(objects)]) = 2
  /\ bundles[Len(objects)][1] # bundles[Len(objects)][2]

\* ------------------------------------------------------------------------
\* C2 and C3
\* ------------------------------------------------------------------------
\* The RULE_END that token() makes at the end of the fragment.
IsSynthesized(t) == t.kind = "RULE_END" /\ t.end = Len(fragment)

\* The RULE_END that token() makes of blank lines.
IsBlankLines(t) == t.kind = "RULE_END" /\ t.end < Len(fragment)

ReturnedTokens == SelectSeq(returned, LAMBDA t : t # NoToken)

\* C2: on a fragment on which no lexical error is raised every call of
\* token() returns; exactly one RULE_END is made at the end of the fragment,
\* it is the last token, the end marker None is not returned before it and
\* is returned by the call after it; the tokens are finitely many.
C2_OneRuleEndAtEnd ==
  outcome # "lex_error" =>
    /\ outcome \in {"init", "token", "none"}
    /\ Cardinality({i \in DOMAIN returned : IsSynthesized(returned[i])}) <= 1
    /\ \A i \in DOMAIN returned :
         returned[i] = NoToken =>
           \E j \in 1..(i - 1) : IsSynthesized(returned[j])
    /\ \A i \in DOMAIN returned :
         IsSynthesized(returned[i]) =>
           \A j \in (i + 1)..Len(returned) : returned[j] = NoToken
    /\ Len(ReturnedTokens) <= Len(fragment) + 1

\* Positions of the fragment are counted from 0.
AllSpace(a, b) == \A k \in a..b : isspace(fragment[k + 1])

Newlines(a, b) == Cardinality({k \in a..b : fragment[k + 1] = "\n"})

\* The end of the token before token i of toks; -1 before the first.
EndBefore(toks, i) == IF i = 1 THEN -1 ELSE toks[i - 1].end

\* A RULE_END of blank lines covers a maximal run of whitespace that holds
\* two newlines or more and starts right after the token before it.
CoversBlankLines(toks, i) ==
  /\ toks[i].start = EndBefore(toks, i)
  /\ toks[i].start < toks[i].end
  /\ AllSpace(toks[i].start + 1, toks[i].end)
  /\ Newlines(toks[i].start + 1, toks[i].end) >= 2
  /\ (toks[i].start >= 0 => ~isspace(fragment[toks[i].start + 1]))
  /\ (toks[i].end + 1 < Len(fragment) => ~isspace(fragment[toks[i].end + 2]))

\* What lies between any other token and the token before it is whitespace
\* with one newline at most.
FollowsSpace(toks, i) ==
  /\ EndBefore(toks, i) < toks[i].start
  /\ AllSpace(EndBefore(toks, i) + 1, toks[i].start - 1)
  /\ Newlines(EndBefore(toks, i) + 1, toks[i].start - 1) <= 1

\* C3: every maximal run of whitespace with two or more newlines that a
\* token follows is returned as one RULE_END, however many newlines it
\* holds, and whitespace with no or one newline gives no token: between two
\* tokens that token() returns one after the other there is only whitespace
\* with at most one newline, or one RULE_END that covers the whole run.
C3_BlankLinesAreOneRuleEnd ==
  \A i \in DOMAIN ReturnedTokens :
    IF IsBlankLines(ReturnedTokens[i])
    THEN CoversBlankLines(ReturnedTokens, i)
    ELSE FollowsSpace(ReturnedTokens, i)

\* A run of three newlines has been returned as one RULE_END and the token
\* after it has been returned too.
C3_ThreeNewlinesOneRuleEnd ==
  \E i \in DOMAIN ReturnedTokens :
    /\ IsBlankLines(ReturnedTokens[i])
    /\ Newlines(ReturnedTokens[i].start + 1, ReturnedTokens[i].end) >= 3
    /\ i < Len(ReturnedTokens)
    /\ ReturnedTokens[i + 1].kind \in {"TERMINAL", "NONTERMINAL"}

\* ------------------------------------------------------------------------
\* C4
\* ------------------------------------------------------------------------
WellBracketed(text) ==
  /\ Count(text, "[") = Count(text, "]")
  /\ Count(text, "{") = Count(text, "}")
  /\ Count(text, "'") % 2 = 0

\* C4: for a fragment with balanced brackets and no unterminated quote,
\* lexing and parsing end in success or in exactly one error reported
\* through mh.error that stops the processing; they never end in a failed
\* assert or in an exception on a missing token.
C4_SuccessOrOneError ==
  (LastIsFragment /\ WellBracketed(Unquoted(LastObject.text))) =>
    \/ status = "ok" /\ errors = <<>>
    \/ status = "error" /\ Len(errors) = 1 /\ pc = "exited"

\* ------------------------------------------------------------------------
\* C5
\* ------------------------------------------------------------------------
\* C5: for a fragment that has been parsed, the text  name ::= str(tree)  of
\* each of its productions is parsed to a tree that is equal to the first
\* one but for the locations: same nodes, same kinds, names and suffixes of
\* the literals, same order of the members.
C5_RoundTrip ==
  pc = "done" =>
    \A k \in DOMAIN reparsed :
      ParsedAlone(reparsed[k], reparsed[k].name,
                  Lookup(productions, reparsed[k].name))

\* ------------------------------------------------------------------------
\* C6
\* ------------------------------------------------------------------------
DuplicateReported ==
  /\ status = "error"
  /\ errors # <<>>
  /\ errors[Len(errors)].kind = "duplicate"

\* The one entry of the table for name is there since before token i.
FirstKept(toks, i) ==
  /\ Cardinality({k \in DOMAIN productions :
                    productions[k].name = toks[i].value}) = 1
  /\ \/ toks[i].value \in Keys(before.productions)
     \/ Lookup(productions, toks[i].value).location.start_pos
          < toks[i].location.start_pos

\* C6: a production whose name is a key of productions already, from an
\* earlier fragment or from earlier in the same fragment, is never accepted;
\* when parse_production comes to it, one error "duplicated definition" is
\* reported at the NONTERMINAL token that declares it again, every tree
\* stored before stays as it was, and main() is left: no later object is
\* taken and nothing is written.
C6_DuplicateProduction ==
  LastIsFragment =>
    /\ DuplicateReported =>
         /\ errors = <<Message("duplicate", <<"duplicated definition">>,
                               errors[1].location)>>
         /\ \E i \in DOMAIN LastTokens :
              /\ Redeclares(LastTokens, i, Keys(before.productions))
              /\ LastTokens[i].location = errors[1].location
              /\ FirstKept(LastTokens, i)
         /\ SubSeq(productions, 1, Len(before.productions))
              = before.productions
         /\ pc = "exited"
         /\ ~output.opened
    /\ status = "ok" =>
         \A i \in DOMAIN LastTokens :
           ~Redeclares(LastTokens, i, Keys(before.productions))
    /\ (status = "error" /\ ~DuplicateReported) =>
         \A i \in 1..(Len(LastTokens) - 1) :
           Redeclares(LastTokens, i, Keys(before.productions)) =>
             errors[1].location.start_pos < LastTokens[i].location.start_pos

\* A fragment has declared again a production of an earlier fragment and
\* the error has been reported.
C6_RedeclaredAcrossFragments ==
  /\ LastIsFragment
  /\ DuplicateReported
  /\ before.productions # <<>>
  /\ \E i \in DOMAIN LastTokens :
       /\ LastTokens[i].location = errors[1].location
       /\ LastTokens[i].value \in Keys(before.productions)

\* ------------------------------------------------------------------------
\* C7
\* ------------------------------------------------------------------------
\* The names that the bullets of an object register, in order.
RECURSIVE Registrations(_, _, _)
Registrations(bullets, k, backtick) ==
  IF k > Len(bullets) THEN <<>>
  ELSE (IF backtick THEN finditer(bullets[k].value, 1)
        ELSE <<bullets[k].value>>)
       \o Registrations(bullets, k + 1, backtick)

LastRegistrations ==
  Registrations(LastObject.bullets, 1, LastObject.type = "Punctuation")

\* Registration k is of a name registered before it, by an earlier object or
\* by an earlier registration of this object.
IsSecond(regs, k, tset) ==
  /\ regs[k] # <<>>
  /\ regs[k] \in tset \cup {regs[j] : j \in 1..(k - 1)}

\* Registration k is the first that raises: it is the first of an empty or
\* an already registered name.
FirstRaising(regs, k, tset) ==
  /\ regs[k] = <<>> \/ IsSecond(regs, k, tset)
  /\ \A j \in 1..(k - 1) : regs[j] # <<>> /\ ~IsSecond(regs, j, tset)

\* C7: the second registration of a terminal raises the error "duplicate
\* definition of terminal" and leaves the set of terminals as it was before
\* that registration, whichever of register_terminal and
\* register_backtick_terminals made the first and the second registration;
\* registrations that are no second registration are accepted.
C7_DuplicateTerminal ==
  (objects # <<>> /\ LastObject.type \in {"Keywords", "Punctuation"}) =>
    /\ \A k \in DOMAIN LastRegistrations :
         (/\ FirstRaising(LastRegistrations, k, before.terminals)
          /\ IsSecond(LastRegistrations, k, before.terminals)) =>
           /\ status = "error"
           /\ Len(errors) = 1
           /\ errors[1].kind = "duplicate terminal"
           /\ terminals = before.terminals
                            \cup {LastRegistrations[j] : j \in 1..(k - 1)}
           /\ pc = "exited"
    /\ (\A k \in DOMAIN LastRegistrations :
          ~FirstRaising(LastRegistrations, k, before.terminals)) =>
         /\ status = "ok"
         /\ errors = <<>>
         /\ terminals = before.terminals \cup Range(LastRegistrations)

\* A name registered by register_terminal has been registered again by
\* register_backtick_terminals.
C7_ExplicitThenBackQuoted ==
  /\ Len(objects) = 2
  /\ objects[1].type = "Keywords"
  /\ objects[2].type = "Punctuation"
  /\ status = "error"
  /\ errors[1].kind = "duplicate terminal"
  /\ \E k \in DOMAIN LastRegistrations :
       /\ FirstRaising(LastRegistrations, k, before.terminals)
       /\ LastRegistrations[k] \in before.terminals

\* ------------------------------------------------------------------------
\* C8
\* ------------------------------------------------------------------------
Unknown(leaf, tset, prods) ==
  CASE leaf.kind = "SYMBOL" -> leaf.value \notin tset
    [] leaf.kind = "NONTERMINAL" -> leaf.value \notin Keys(prods)
    [] OTHER -> FALSE

WarningText(leaf) ==
  IF leaf.kind = "SYMBOL" THEN <<"unknown terminal">>
  ELSE <<"unknown production">>

WarningsAt(ws, location) == {i \in DOMAIN ws : ws[i].location = location}

\* One warning of the right text for an unknown leaf, none for another.
LeafChecked(leaf, ws, tset, prods) ==
  IF Unknown(leaf, tset, prods)
  THEN \E i \in DOMAIN ws :
         /\ WarningsAt(ws, leaf.location) = {i}
         /\ ws[i] = Message("warning", WarningText(leaf), leaf.location)
  ELSE WarningsAt(ws, leaf.location) = {}

AllLeavesChecked(leaves, ws, tset, prods) ==
  /\ \A k \in DOMAIN leaves : LeafChecked(leaves[k], ws, tset, prods)
  /\ \A i \in DOMAIN ws :
       \E k \in DOMAIN leaves : leaves[k].location = ws[i].location

\* C8: sem() gives exactly one warning "unknown terminal" for each SYMBOL
\* leaf whose text is not in terminals, exactly one warning "unknown
\* production" for each NONTERMINAL leaf whose name is no key of
\* productions, and none for a TERMINAL leaf; every leaf of every
\* production is visited, no error is reported, and the set of the warnings
\* is the same when the productions are visited in the opposite order.
C8_SemWarnings ==
  pc \in {"str", "done"} =>
    /\ AllLeavesChecked(TableLeaves(productions, 1), warnings,
                        terminals, productions)
    /\ errors = <<>>
    /\ status = "ok"
    /\ Range(sem(terminals, Reverse(productions))) = Range(warnings)

\* sem() has gone over an unknown NONTERMINAL, an unknown SYMBOL and a
\* TERMINAL.
C8_EveryKindOfLeaf ==
  /\ pc = "done"
  /\ \E i \in DOMAIN warnings : warnings[i].message = <<"unknown terminal">>
  /\ \E i \in DOMAIN warnings : warnings[i].message = <<"unknown production">>
  /\ \E leaf \in Range(TableLeaves(productions, 1)) : leaf.kind = "TERMINAL"

\* ------------------------------------------------------------------------
\* C9 and C10
\* ------------------------------------------------------------------------
\* C9: once an error has been reported in main(), the object on which it
\* was reported is the last one taken, main() is left and the output
\* document is neither opened nor written; warnings are reported only by
\* the semantic check after all objects have been taken, and a run that has
\* reported warnings ends with the output document written.
C9_ErrorsStopWarningsDoNot ==
  /\ errors # <<>> =>
       /\ pc = "exited"
       /\ output = NoOutput
       /\ Len(errors) = 1
       /\ process_object(LastObject, before).st = "error"
  /\ warnings # <<>> =>
       /\ pc \in {"write", "exited"}
       /\ errors = <<>>
       /\ warnings = sem(terminals, productions)
       /\ (pc = "exited" => output.opened)

\* A run that reported warnings has written the output document.
C9_WrittenAfterWarnings ==
  /\ pc = "exited"
  /\ warnings # <<>>
  /\ output.opened
  /\ \E i \in DOMAIN objects : objects[i].type = "Grammar"

\* C10: when an error has been raised through mh.error, main() is left and
\* the exit status of the process is not zero.
C10_ErrorExitsNonZero ==
  errors # <<>> =>
    /\ pc = "exited"
    /\ exit_status # <<>>
    /\ exit_status[1] # 0

\* ------------------------------------------------------------------------
\* C11
\* ------------------------------------------------------------------------
IsBlank(text) == \A k \in DOMAIN text : isspace(text[k])

\* C11: parse() accepts a fragment without productions (nothing, or only
\* whitespace, between the delimiters): no error is reported, the bundle of
\* the object is the empty list and productions stays as it was.
C11_EmptyFragmentAccepted ==
  (LastIsFragment /\ IsBlank(Unquoted(LastObject.text))) =>
    /\ status = "ok"
    /\ errors = <<>>
    /\ LastObject.name \in DOMAIN bundles
    /\ bundles[LastObject.name] = <<>>
    /\ productions = before.productions

\* ------------------------------------------------------------------------
\* C12
\* ------------------------------------------------------------------------
\* A written text without its markup <...>.
InMarkup(text, i) ==
  \E j \in 1..i : text[j] = "<" /\ \A k \in j..(i - 1) : text[k] # ">"

PlainAt(text, kept, k) ==
  text[CHOOSE i \in kept : Cardinality({j \in kept : j <= i}) = k]

PlainOf(text, kept) == [k \in 1..Cardinality(kept) |-> PlainAt(text, kept, k)]

Plain(text) == PlainOf(text, {i \in DOMAIN text : ~InMarkup(text, i)})

\* foo ::= 'a' BAR | [ baz ]
ScenarioLine ==
  Spaced(<<W_foo, W_is, <<"'", "a", "'">>, W_BAR, W_or, W_sbra, W_baz, W_sket>>)

\* Alternatives[Sequence[Literal(Symbol, a), Literal(Terminal, BAR)],
\*              Optional(Literal(Nonterminal, baz))]
ScenarioTree ==
  [node |-> "BNF_Alternatives",
   members |->
     <<[node |-> "BNF_String",
        members |->
          <<[node |-> "BNF_Literal", kind |-> "SYMBOL",
             value |-> <<"a">>, name |-> None],
            [node |-> "BNF_Literal", kind |-> "TERMINAL",
             value |-> W_BAR, name |-> None]>>],
       [node |-> "BNF_Optional",
        expansion |-> [node |-> "BNF_Literal", kind |-> "NONTERMINAL",
                       value |-> W_baz, name |-> None]]>>]

\* The fragment of the scenario is the last one taken, with BAR a terminal,
\* baz a production and foo none.
InScenario ==
  /\ LastIsFragment
  /\ LastObject.text = Marked(ScenarioLine)
  /\ W_BAR \in before.terminals
  /\ W_baz \in Keys(before.productions)
  /\ W_foo \notin Keys(before.productions)

\* Exactly the production foo has been added, with the tree of the scenario.
FooAdded ==
  /\ status = "ok"
  /\ errors = <<>>
  /\ Len(productions) = Len(before.productions) + 1
  /\ SubSeq(productions, 1, Len(before.productions)) = before.productions
  /\ productions[Len(productions)].name = W_foo
  /\ Strip(productions[Len(productions)].n_exp) = ScenarioTree
  /\ bundles[LastObject.name] = <<W_foo>>

Written == pc = "exited" /\ output.opened

\* What write_text_object has written for the last Grammar object.
LastRender == output.pre[Len(output.pre)]

\* C12: in scenario A the fragment  foo ::= 'a' BAR | [ baz ]  adds exactly
\* one production foo, with the tree Alternatives[Sequence[Symbol a,
\* Terminal BAR], Optional(Nonterminal baz)], and the render of foo (what
\* write_production writes, markup aside, or  foo ::=  and the __str__ form
\* of the tree) is the single line  foo ::= 'a' BAR | [ baz ].
C12_ScenarioOnOneLine ==
  InScenario =>
    /\ FooAdded
    /\ Written =>
         \/ Plain(LastRender) \in {ScenarioLine, ScenarioLine \o <<"\n">>}
         \/ Spaced(<<W_foo, W_is, Str(Lookup(productions, W_foo))>>)
              = ScenarioLine

\* ------------------------------------------------------------------------
\* C13
\* ------------------------------------------------------------------------
\* The tokens of toks[lo..hi] that are inside no bracket opened in lo..hi.
TopLevel(toks, lo, hi) ==
  {i \in lo..hi :
     Cardinality({j \in lo..(i - 1) : toks[j].kind \in {"S_BRA", "C_BRA"}})
       = Cardinality({j \in lo..(i - 1) : toks[j].kind \in {"S_KET", "C_KET"}})}

\* The | that separate the sequences of the expansion toks[lo..hi], and the
\* tokens that open the fragments of the sequence toks[lo..hi].
Bars(toks, lo, hi) ==
  {i \in TopLevel(toks, lo, hi) : toks[i].kind = "ALTERNATIVE"}

Openers(toks, lo, hi) ==
  {i \in TopLevel(toks, lo, hi) :
     toks[i].kind \in {"S_BRA", "C_BRA", "TERMINAL", "NONTERMINAL", "SYMBOL"}}

\* The k-th smallest element of a set of numbers.
Nth(S, k) == CHOOSE i \in S : Cardinality({j \in S : j <= i}) = k

\* Where part k begins and ends, for parts lo..hi cut at the members of
\* cuts, and for parts beginning at the members of starts.
CutLo(cuts, lo, k) == IF k = 1 THEN lo ELSE Nth(cuts, k - 1) + 1

CutHi(cuts, hi, k) ==
  IF k = Cardinality(cuts) + 1 THEN hi ELSE Nth(cuts, k) - 1

StartHi(starts, hi, k) ==
  IF k = Cardinality(starts) THEN hi ELSE Nth(starts, k + 1) - 1

\* The tree n is the one the claim gives for the tokens toks[lo..hi].
RECURSIVE IsExpansionOf(_, _, _, _), IsStringOf(_, _, _, _),
          IsFragmentOf(_, _, _, _)

IsAlternativesOf(n, toks, cuts, lo, hi) ==
  /\ n.node = "BNF_Alternatives"
  /\ Len(n.members) = Cardinality(cuts) + 1
  /\ \A k \in DOMAIN n.members :
       IsStringOf(n.members[k], toks, CutLo(cuts, lo, k), CutHi(cuts, hi, k))

IsExpansionOf(n, toks, lo, hi) ==
  IF Bars(toks, lo, hi) = {}
  THEN IsStringOf(n, toks, lo, hi)
  ELSE IsAlternativesOf(n, toks, Bars(toks, lo, hi), lo, hi)

IsSequenceOf(n, toks, starts, hi) ==
  /\ n.node = "BNF_String"
  /\ Len(n.members) = Cardinality(starts)
  /\ \A k \in DOMAIN n.members :
       IsFragmentOf(n.members[k], toks, Nth(starts, k), StartHi(starts, hi, k))

IsStringOf(n, toks, lo, hi) ==
  IF Cardinality(Openers(toks, lo, hi)) = 1
  THEN IsFragmentOf(n, toks, lo, hi)
  ELSE IsSequenceOf(n, toks, Openers(toks, lo, hi), hi)

IsFragmentOf(n, toks, lo, hi) ==
  CASE toks[lo].kind = "S_BRA" ->
         /\ n.node = "BNF_Optional"
         /\ n.location = toks[lo].location
         /\ toks[hi].kind = "S_KET"
         /\ IsExpansionOf(n.expansion, toks, lo + 1, hi - 1)
    [] toks[lo].kind = "C_BRA" ->
         /\ n.node = "BNF_One_Or_More"
         /\ n.location = toks[lo].location
         /\ toks[hi].kind = "C_KET"
         /\ IsExpansionOf(n.expansion, toks, lo + 1, hi - 1)
    [] OTHER ->
         /\ lo = hi
         /\ n.node = "BNF_Literal"
         /\ n.kind = toks[lo].kind
         /\ n.location = toks[lo].location

\* The nodes of a syntax tree.
RECURSIVE Nodes(_)
Nodes(n) ==
  {n} \cup
  CASE n.node = "BNF_Literal" -> {}
    [] n.node \in {"BNF_Optional", "BNF_One_Or_More"} -> Nodes(n.expansion)
    [] OTHER -> UNION {Nodes(n.members[k]) : k \in DOMAIN n.members}

IsList(n) == n.node \in {"BNF_String", "BNF_Alternatives"}

\* C13: in the tree of every expansion that has been parsed, k >= 2
\* sequences separated by | are an Alternatives node with exactly these k
\* members in the order of the source and one sequence is that sequence
\* itself; m >= 2 adjacent fragments are a Sequence node with exactly these
\* m members in the order of the source and one fragment is that fragment
\* itself.  Every Sequence and Alternatives node stored in productions has
\* two members at least.
C13_ListsAreNotCollapsedWrongly ==
  /\ (pc # "parse" /\ status = "ok") =>
       \A i \in DOMAIN FragmentTokens :
         IsDecl(FragmentTokens, i) =>
           IsExpansionOf(Lookup(productions, FragmentTokens[i].value),
                         FragmentTokens, i + 2,
                         NextRuleEnd(FragmentTokens, i) - 1)
  /\ \A k \in DOMAIN productions :
       \A n \in Nodes(productions[k].n_exp) :
         IsList(n) => Len(n.members) >= 2

\* An Alternatives node of two members, one of them a Sequence node and the
\* other a single fragment, has been stored.
C13_SequenceAmongAlternatives ==
  /\ pc = "done"
  /\ status = "ok"
  /\ \E k \in DOMAIN productions :
       /\ productions[k].n_exp.node = "BNF_Alternatives"
       /\ Len(productions[k].n_exp.members) = 2
       /\ \E a, b \in DOMAIN productions[k].n_exp.members :
            /\ productions[k].n_exp.members[a].node = "BNF_String"
            /\ ~IsList(productions[k].n_exp.members[b])

\* ------------------------------------------------------------------------
\* C14
\* ------------------------------------------------------------------------
\* The line of the fragment that holds position s (the first line is 1), and
\* the column of position s in that line (the first column is 1).
LineOf(frag, s) == 1 + Cardinality({k \in 1..s : frag[k] = "\n"})

ColumnOf(frag, s) ==
  Cardinality({k \in 1..(s + 1) : \A j \in k..s : frag[j] # "\n"})

\* The location of the token t is the one the claim gives, the columns of
\* the fragment being counted from first.
MapsBack(t, first) ==
  /\ t.location.start_pos
       = original_location.start_pos + DelimiterWidth + t.start
  /\ t.location.end_pos
       = original_location.start_pos + DelimiterWidth + t.end
  /\ t.kind # "RULE_END" =>
       /\ t.location.start_line
            = original_location.line_no + (LineOf(fragment, t.start) - 1)
       /\ t.location.start_col
            = IF LineOf(fragment, t.start) = 1
              THEN original_location.col_no + DelimiterWidth
                   + (ColumnOf(fragment, t.start) - 1 + first)
              ELSE ColumnOf(fragment, t.start)

\* C14: the location of every token is its place in the hosting document:
\* line = line of the fragment + (line of the token - 1); start and end
\* position = start position of the fragment + 3 + start and end offset of
\* the token; column = column of the fragment + 3 + column of the token for
\* a token on line 1 of the fragment (the columns counted from 0 or from
\* 1), so that tokens at different columns of line 1 have different
\* columns, and the column of the token itself on a later line.
C14_LocationsMapBack ==
  \E first \in {0, 1} :
    \A i \in DOMAIN ReturnedTokens : MapsBack(ReturnedTokens[i], first)

\* ------------------------------------------------------------------------
\* C15
\* ------------------------------------------------------------------------
\* The places of a name in the bundles.
PlacesOf(name) ==
  {place \in (DOMAIN bundles) \X (1..Len(productions)) :
     /\ place[2] \in DOMAIN bundles[place[1]]
     /\ bundles[place[1]][place[2]] = name}

\* The bundles partition the keys of productions.
BundlesPartition ==
  /\ \A n \in DOMAIN bundles :
       /\ Len(bundles[n]) <= Len(productions)
       /\ \A k \in DOMAIN bundles[n] : bundles[n][k] \in Keys(productions)
  /\ \A name \in Keys(productions) : Cardinality(PlacesOf(name)) = 1

\* The error says that a production was not followed by a RULE_END.
NoRuleEnd(err) ==
  /\ Len(err.message) >= 2
  /\ err.message[1] = "expected"
  /\ err.message[2] = "RULE_END"

\* Token i declares a production that parse_production had returned when
\* the error was raised: its RULE_END lies before the error, or the error is
\* the missing RULE_END after it.
Returned_Before(toks, i, err) ==
  /\ IsDecl(toks, i)
  /\ \/ \E j \in (i + 1)..Len(toks) :
          /\ toks[j].kind = "RULE_END"
          /\ toks[j].location.start_pos < err.location.start_pos
     \/ /\ NoRuleEnd(err)
        /\ toks[i].location.start_pos < err.location.start_pos

RECURSIVE NamesBefore(_, _, _)
NamesBefore(toks, i, err) ==
  IF i > Len(toks) THEN <<>>
  ELSE (IF Returned_Before(toks, i, err) THEN <<toks[i].value>> ELSE <<>>)
       \o NamesBefore(toks, i + 1, err)

LastBundle ==
  IF LastObject.name \in DOMAIN bundles THEN bundles[LastObject.name]
  ELSE <<>>

\* A fragment that failed added the productions that parse_production had
\* returned before the error, and these only.
FailedIsInNeither ==
  /\ LastBundle = NamesBefore(LastTokens, 1, errors[1])
  /\ Len(productions) = Len(before.productions) + Len(LastBundle)
  /\ SubSeq(productions, 1, Len(before.productions)) = before.productions
  /\ \A k \in DOMAIN LastBundle :
       productions[Len(before.productions) + k].name = LastBundle[k]

\* C15: after any sequence of calls of parse() on objects with distinct
\* names, succeeding or failing with an error, every name in a bundle is a
\* key of productions and every key of productions is in exactly one bundle
\* and once in it; a production whose expansion failed to parse is in
\* neither; writing all bundles writes each anchor bnf-<name> at most once.
C15_BundlesPartitionProductions ==
  /\ BundlesPartition
  /\ (LastIsFragment /\ status = "error") => FailedIsInNeither
  /\ \A i, j \in DOMAIN output.anchors :
       output.anchors[i] = output.anchors[j] => i = j

\* The expansion of a production has failed to parse in a fragment taken
\* after fragments that declared productions.
C15_FailedAfterDeclared ==
  /\ LastIsFragment
  /\ status = "error"
  /\ errors[1].kind = "syntax"
  /\ ~NoRuleEnd(errors[1])
  /\ before.productions # <<>>
  /\ \E i \in DOMAIN LastTokens :
       /\ IsDecl(LastTokens, i)
       /\ LastTokens[i].value \notin Keys(productions)
       /\ LastTokens[i].location.start_pos < errors[1].location.start_pos

====
